---- MODULE Spec2Model ----
(***************************************************************************)
(* A model of captive_http.py: the HTTPServer of an ESP8266 captive        *)
(* portal.  Byte strings are TLA+ strings; a dict is a function whose      *)
(* DOMAIN is its key set; a socket is identified by its handle (id(s)).    *)
(***************************************************************************)
EXTENDS Integers, Sequences, FiniteSets, TLC

VARIABLES
    local_ip,       \* self.local_ip
    ssid,           \* self.ssid
    is_connected,   \* self.is_connected
    routes,         \* self.routes: path -> file name
    request,        \* self.request: id(sock) -> inbound bytes
    conns,          \* self.conns: id(sock) -> WriteConn
    poll,           \* self.poller: registered socket -> interest mask
    socks,          \* the client sockets: "new", "open" or "closed"
    peer,           \* the remote end and transport of each client socket
    resp,           \* per socket, the responses begun by prepare_write
    offered,        \* per socket handle, which requests its peers may send
    ev,             \* the last call made on the server
    res,            \* the value that call returned
    raised          \* the exception that call let escape, or "none"

vars == <<local_ip, ssid, is_connected, routes, request, conns, poll, socks,
          peer, resp, offered, ev, res, raised>>

-----------------------------------------------------------------------------
(* Bounds of the model *)

\* the client sockets the listening socket can hand out
Socks == {"s1", "s2"}
\* most read events with data one connection gets
MaxReads == 2
\* most short (partial, non-zero) socket writes one connection gets
MaxShort == 1

-----------------------------------------------------------------------------
(* Byte strings *)

CRLF == "\r\n"
CRLFCRLF == "\r\n\r\n"
\* stands for the byte 0x00 the transmission buffer is padded with
NUL == "_"
\* Python's None where bytes are expected
None == "<None>"
\* Python's None where a tuple is expected
NoCreds == <<>>

Min(a, b) == IF a < b THEN a ELSE b
Max(a, b) == IF a > b THEN a ELSE b

\* the bytes i..j of b, counted from 1; none when j < i
Sub(b, i, j) == IF j < i THEN "" ELSE SubSeq(b, i, j)

\* b[i:j] of Python for 0 <= i, j
Slice(b, i, j) == Sub(b, i + 1, Min(j, Len(b)))

\* sub in b
Contains(b, sub) ==
    \E i \in 1..(Len(b) - Len(sub) + 1) : Sub(b, i, i + Len(sub) - 1) = sub

\* b.find(sub) + 1: the first position of sub in b, 0 when there is none
Find(b, sub) ==
    LET hits == {i \in 1..(Len(b) - Len(sub) + 1) :
                    Sub(b, i, i + Len(sub) - 1) = sub}
    IN  IF hits = {} THEN 0 ELSE CHOOSE i \in hits : \A j \in hits : i <= j

\* b.split(sep)
RECURSIVE split(_, _)
split(b, sep) ==
    LET i == Find(b, sep)
    IN  IF i = 0 THEN <<b>>
        ELSE <<Sub(b, 1, i - 1)>> \o split(Sub(b, i + Len(sep), Len(b)), sep)

\* b.lstrip(c) for a single byte c
RECURSIVE lstrip(_, _)
lstrip(b, c) ==
    IF Len(b) > 0 /\ Sub(b, 1, 1) = c THEN lstrip(Sub(b, 2, Len(b)), c) ELSE b

\* c * n
RECURSIVE Times(_, _)
Times(c, n) ==
    IF n <= 0 THEN ""
    ELSE IF n = 1 THEN c
    ELSE Times(c, n \div 2) \o Times(c, n - (n \div 2))

\* data[-4:]
Last4(data) == Sub(data, Max(1, Len(data) - 3), Len(data))

\* template % args, for %s conversions
RECURSIVE Percent(_, _)
Percent(template, args) ==
    LET i == Find(template, "%s")
    IN  IF i = 0 \/ args = <<>> THEN template
        ELSE Sub(template, 1, i - 1) \o Head(args)
             \o Percent(Sub(template, i + 2, Len(template)), Tail(args))

-----------------------------------------------------------------------------
(* The files the server opens *)

MSS == 536

IndexLen == 600
AuthLen == 517
FilePattern == "0123456789abcdefghijklm"

IndexHtml == Sub(Times(FilePattern, 30), 1, IndexLen)
AuthenticatingHtml == Sub(Times(FilePattern, 30), 4, AuthLen + 3)
ConnectedHtml == "<p>%s at %s</p>"

\* open(name, "rb").read()
FileData(name) ==
    CASE name = "./index.html" -> IndexHtml
      [] name = "./authenticating.html" -> AuthenticatingHtml
      [] name = "./connected.html" -> ConnectedHtml
      [] OTHER -> ""

\* uio.BytesIO(data) and open(name, "rb"): a body source at position 0
BytesIO(data) == [data |-> data, pos |-> 0]

\* body.readinto(buf, n): the bytes read and the advanced source
readinto(body, n) ==
    LET chunk == Slice(body.data, body.pos, body.pos + n)
    IN  [chunk |-> chunk, body |-> [body EXCEPT !.pos = body.pos + Len(chunk)]]

-----------------------------------------------------------------------------
(* Request parsing *)

\* [param.split(b"=") for param in query.split(b"&")]
query_pairs(query) ==
    LET ps == split(query, "&") IN [i \in 1..Len(ps) |-> split(ps[i], "=")]

\* a parse that raised, and one that returned ReqInfo(req_type, base_path,
\* query_params, host); params as the list of (key, val) pairs the dict is
\* built from
ParseFailed(exception) ==
    [raises |-> exception, type |-> None, path |-> None, params |-> <<>>, host |-> None]

ReqInfo(type, path, params, host) ==
    [raises |-> "none", type |-> type, path |-> path, params |-> params, host |-> host]

\* the dict comprehension over the pairs: each must unpack into key, val
parse_params(req_type, base_path, pairs, host) ==
    IF \E i \in 1..Len(pairs) : Len(pairs[i]) # 2
    THEN ParseFailed("ValueError")
    ELSE ReqInfo(req_type, base_path, pairs, host)

\* the Host line list: [line.split(b": ")[1] for line ...][0]
parse_host(req_type, path, hosts) ==
    IF \E i \in 1..Len(hosts) : Len(split(hosts[i], ": ")) < 2
    THEN ParseFailed("IndexError")
    ELSE IF hosts = <<>> THEN ParseFailed("IndexError")
    ELSE parse_params(req_type, path[1],
                      IF Len(path) > 1 /\ path[2] # "" THEN query_pairs(path[2])
                      ELSE <<>>,
                      split(hosts[1], ": ")[2])

\* req_type, full_path, http_ver = req_lines[0].split(b" ")
parse_first(first, hosts) ==
    IF Len(first) # 3 THEN ParseFailed("ValueError")
    ELSE parse_host(first[1], split(first[2], "?"), hosts)

parse_lines(req_lines) ==
    parse_first(split(req_lines[1], " "),
                SelectSeq(req_lines, LAMBDA line : Contains(line, "Host:")))

\* parse_request(req): the exception it raises ("none" when it returns) and
\* the ReqInfo it returns
parse_request(req) == parse_lines(split(req, CRLF))

\* params.get(key, None) on the dict built from the pairs (the last one wins)
params_get(params, key) ==
    LET hits == {i \in 1..Len(params) : params[i][1] = key}
    IN  IF hits = {} THEN None
        ELSE params[CHOOSE i \in hits : \A j \in hits : j <= i][2]

\* len(host.split(b".")) > 1
is_valid_host(host) == Len(split(host, ".")) > 1

\* self.routes.get(path)
routes_get(path) == IF path \in DOMAIN routes THEN routes[path] ELSE None

\* open("./connected.html", "rb").read() % (self.ssid, self.local_ip)
conn_page == Percent(FileData("./connected.html"), <<ssid, local_ip>>)

-----------------------------------------------------------------------------
(* Routing *)

\* a redirect that keeps the leading slash of the path
redirect_unstripped(host, path) ==
    [headers |-> "HTTP/1.1 307 Temporary Redirect\r\n"
                 \o "Location: http://" \o host \o "/" \o path \o "\r\n",
     body    |-> BytesIO("Redirecting")]

\* what redirect(s, host, path) hands to prepare_write
redirect(host, path) ==
    [headers |-> "HTTP/1.1 307 Temporary Redirect\r\n"
                 \o "Location: http://" \o host \o "/" \o lstrip(path, "/") \o "\r\n",
     body    |-> BytesIO("Redirecting")]

\* a host check that lets every host through
wrong_host_never(host) == FALSE

\* req.host != self.local_ip
wrong_host(host) == host # local_ip

\* "not any" in the place of "not all"
missing_login_both(ssid_, password) == ssid_ \in {None, ""} /\ password \in {None, ""}

\* not all([ssid, password]): one of them is None or empty
missing_login(ssid_, password) == ssid_ \in {None, ""} \/ password \in {None, ""}

\* a login answer that sends the client back to the form
login_headers_root(ip) == "HTTP/1.1 302 OK\r\nLocation: http://" \o ip \o "/\r\n"

\* the Location header of the answer to a login submission
login_headers(ip) ==
    "HTTP/1.1 302 OK\r\nLocation: http://" \o ip \o "/authenticating\r\n"

\* the outcome of check_route(s, raw_req): the exception it raises, the
\* prepare_write calls it makes on the way and the tuple it returns
Route(raises, writes, headers, base_path, creds) ==
    [raises |-> raises, writes |-> writes, headers |-> headers,
     base_path |-> base_path, creds |-> creds]

\* the login branch of check_route
route_login(ssid_, password) ==
    IF missing_login(ssid_, password)
    THEN Route("none", <<redirect(local_ip, "/")>>, None, None, NoCreds)
    ELSE Route("none", <<>>, login_headers(local_ip),
               "/authenticating", <<ssid_, password>>)

\* check_route once parse_request has returned req
route_of(req) ==
    IF req.raises # "none"
    THEN Route(req.raises, <<>>, None, None, NoCreds)
    ELSE IF req.path \in {"/generate_204", "/gen_204"} /\ is_connected
    THEN Route("none", <<>>, "HTTP/1.1 204 No Content\r\n", req.path, NoCreds)
    ELSE IF ~is_valid_host(req.host)
    THEN Route("none", <<>>, "HTTP/1.1 404 Not Found\r\n", None, NoCreds)
    ELSE IF wrong_host(req.host)
    THEN Route("none", <<redirect(local_ip, "/")>>, None, None, NoCreds)
    ELSE IF req.type # "GET" /\ req.path \notin DOMAIN routes
    THEN \* the print names req_type, which check_route never binds
         Route("NameError", <<>>, None, None, NoCreds)
    ELSE IF req.path \in {"/", "/authenticating"}
    THEN Route("none", <<>>, "HTTP/1.1 200 OK\r\n", req.path, NoCreds)
    ELSE IF req.path = "/login"
    THEN route_login(params_get(req.params, "ssid"),
                     params_get(req.params, "password"))
    ELSE Route("none", <<>>, "HTTP/1.1 404 Not Found\r\n", req.path, NoCreds)

check_route(raw_req) == route_of(parse_request(raw_req))

\* a route selection that never looks at the mode
route_for_captive(base_path) == [kind |-> "file", name |-> routes_get(base_path)]

\* the route read() picks for base_path
route_for(base_path) ==
    IF ~is_connected
    THEN [kind |-> "file", name |-> routes_get(base_path)]
    ELSE [kind |-> "callable", name |-> "conn_page"]

\* the body source send_response opens for a route
body_of(route) ==
    IF route.kind = "callable" THEN BytesIO(conn_page)
    ELSE IF route.name # None THEN BytesIO(FileData(route.name))
    ELSE BytesIO("")

\* the prepare_write calls of a read whose check_route gave r: the ones
\* check_route made, then the one of send_response
read_writes(r) ==
    IF r.headers = None THEN r.writes
    ELSE r.writes \o <<[headers |-> r.headers,
                        body |-> body_of(route_for(r.base_path))]>>

-----------------------------------------------------------------------------
(* Response writer *)

\* the WriteConn prepare_write(s, body, headers) stores
prepare_write(body, headers) ==
    LET hs == headers \o "\r\n"
        rd == readinto(body, MSS - Len(hs))
    IN  [body        |-> rd.body,
         buff        |-> hs \o rd.chunk \o Times(NUL, MSS - Len(hs) - Len(rd.chunk)),
         write_range |-> <<0, Len(hs) + Len(rd.chunk)>>]

\* a partial advance that moves the window end along with its start
buff_advance_shifted(c, bytes_written) ==
    IF bytes_written = c.write_range[2] - c.write_range[1]
    THEN LET rd == readinto(c.body, MSS)
         IN  [body        |-> rd.body,
              buff        |-> rd.chunk \o Sub(c.buff, Len(rd.chunk) + 1, Len(c.buff)),
              write_range |-> <<0, Len(rd.chunk)>>]
    ELSE [c EXCEPT !.write_range = <<c.write_range[1] + bytes_written,
                                     c.write_range[2] + bytes_written>>]

\* the WriteConn after buff_advance(c, bytes_written)
buff_advance(c, bytes_written) ==
    IF bytes_written = c.write_range[2] - c.write_range[1]
    THEN LET rd == readinto(c.body, MSS)
         IN  [body        |-> rd.body,
              buff        |-> rd.chunk \o Sub(c.buff, Len(rd.chunk) + 1, Len(c.buff)),
              write_range |-> <<0, Len(rd.chunk)>>]
    ELSE [c EXCEPT !.write_range = <<c.write_range[1] + bytes_written, c.write_range[2]>>]

\* c.buffmv[c.write_range[0] : c.write_range[1]]
window(c) == Slice(c.buff, c.write_range[1], c.write_range[2])

\* a close test that wants bytes written and a short segment
write_done_both(c, bytes_written) == bytes_written # 0 /\ c.write_range[2] < MSS

\* write_to closes the connection after this write
write_done(c, bytes_written) == bytes_written = 0 \/ c.write_range[2] < MSS

-----------------------------------------------------------------------------
(* Dicts, the poller and the sockets *)

EmptyDict == [x \in {} |-> x]

\* d[k] = v
dict_set(d, k, v) == [x \in DOMAIN d \cup {k} |-> IF x = k THEN v ELSE d[x]]

\* a deletion that empties the dict
dict_del_all(d, k) == [x \in {} |-> d[x]]

\* d without the key k
dict_del(d, k) == [x \in DOMAIN d \ {k} |-> d[x]]

\* self.request.get(sid, b"")
request_get(sid) == IF sid \in DOMAIN request THEN request[sid] ELSE ""

\* self.poller.register(client_sock, select.POLLIN)
register(s, mask) == dict_set(poll, s, mask)

\* a modify that leaves the interest mask as it was
modify_ignored(s, mask) == poll

\* self.poller.modify(s, select.POLLOUT)
modify(s, mask) == dict_set(poll, s, mask)

\* an unregister that leaves the entry in the poller
unregister_kept(s) == poll

\* self.poller.unregister(s): uselect drops the entry when there is one
unregister(s) == dict_del(poll, s)

\* del d[k] raises KeyError
del_raises(d, k) == k \notin DOMAIN d

\* a pop that leaves the entry in the dict
request_pop_kept(sid) == request

\* self.request.pop(sid)
request_pop(sid) == dict_del(request, sid)

\* "if sid in self.request: del self.request[sid]" raises KeyError
close_request_raises(sid) == sid \in DOMAIN request /\ del_raises(request, sid)

\* the del without its guard
close_conns_raises_unguarded(sid) == del_raises(conns, sid)

\* "if sid in self.conns: del self.conns[sid]" raises KeyError
close_conns_raises(sid) == sid \in DOMAIN conns /\ del_raises(conns, sid)

\* close(s)
close(s) ==
    /\ socks' = [socks EXCEPT ![s] = "closed"]
    /\ poll' = unregister(s)
    /\ request' = dict_del(request, s)
    /\ conns' = IF close_request_raises(s) THEN conns ELSE dict_del(conns, s)
    /\ raised' = IF close_request_raises(s) \/ close_conns_raises(s)
                 THEN "KeyError" ELSE "none"

-----------------------------------------------------------------------------
(* The peers *)

OwnIp == "1.2"
NewIp == "1.3"
NewSsid == "W"

Req(method, path, host) ==
    method \o " " \o path \o " HTTP/1.1\r\nHost: " \o host \o "\r\n\r\n"

\* the requests a peer may send
Requests ==
    { Req("GET", "/", OwnIp),
      Req("GET", "/", NewIp),
      Req("GET", "/", "lh"),
      Req("GET", "/authenticating", OwnIp),
      Req("GET", "/login?ssid=H&password=s", OwnIp),
      Req("GET", "/login?ssid=H&password=s", NewIp),
      Req("GET", "/login?ssid=H&password=s", "a.b"),
      Req("GET", "/login?ssid=H", OwnIp),
      Req("GET", "/login?ssid=&password=s", OwnIp),
      Req("GET", "/gen_204", "a.b"),
      Req("POST", "/generate_204", "lh"),
      Req("GET", "/x", OwnIp),
      Req("POST", "/x", OwnIp),
      Req("POST", "/", OwnIp),
      Req("GET", "/login?ssid", OwnIp),
      "GET /\r\nHost: " \o OwnIp \o "\r\n\r\n",
      "GET / HTTP/1.1\r\n\r\n" }

\* the requests of the peers when two connections run side by side
FewRequests ==
    { Req("GET", "/", OwnIp),
      Req("GET", "/authenticating", OwnIp),
      Req("GET", "/login?ssid=H&password=s", OwnIp),
      Req("GET", "/", "lh"),
      "GET / HTTP/1.1\r\n\r\n" }

\* the requests a peer may send on a handle offered "all", "few" or "none"
Catalogue(which) ==
    CASE which = "all" -> Requests
      [] which = "few" -> FewRequests
      [] OTHER -> {}

NewPeer == [rem |-> "", reads |-> 0, shorts |-> 0, wire |-> "", zero |-> FALSE]

\* the sizes of the chunk the next s.read() may return: nothing (the peer
\* closed), one byte, all but the last byte, or all that is left
read_sizes(s) ==
    LET left == Len(peer[s].rem)
    IN  {k \in {0, 1, left - 1, left} :
            /\ 0 <= k /\ k <= left
            /\ k > 0 => peer[s].reads < MaxReads
            /\ (0 < k /\ k < left) => peer[s].reads + 1 < MaxReads}

\* the size of the window the next write_to(s) hands to sock.write
write_most(s) == IF s \in DOMAIN conns THEN Len(window(conns[s])) ELSE 0

\* the byte counts that sock.write may return: 0, one byte, or all of it
write_sizes(s) ==
    {n \in {0, 1, write_most(s)} :
        /\ n <= write_most(s)
        /\ (0 < n /\ n < write_most(s)) => peer[s].shorts < MaxShort}

\* a call made on the server: its kind and socket; for a read, the inbound
\* bytes accumulated (acc) and whether the request was found complete; the
\* byte count the socket call returned (n); what the socket was when the
\* call was made (was) and whether the call closed it; and, of the
\* connection after the call, the bytes its socket accepted (wire), how many
\* of its writes were short (shorts), whether a write of a non-empty window
\* returned 0 (zero) and the responses begun on it (resp)
Event(kind, s, acc, completed, n, closed, p, rs) ==
    [kind |-> kind, sock |-> s, acc |-> acc, completed |-> completed, n |-> n,
     was |-> IF s \in Socks THEN socks[s] ELSE "none",
     closed |-> closed, wire |-> p.wire, shorts |-> p.shorts, zero |-> p.zero,
     resp |-> rs]

NoEvent(kind, s) == Event(kind, s, "", FALSE, 0, FALSE, NewPeer, <<>>)

-----------------------------------------------------------------------------
(* The server *)

Start ==
    /\ local_ip = OwnIp
    /\ ssid = None
    /\ is_connected = FALSE
    /\ routes = [p \in {"/", "/authenticating"} |->
                    IF p = "/" THEN "./index.html" ELSE "./authenticating.html"]
    /\ request = EmptyDict
    /\ conns = EmptyDict
    /\ poll = EmptyDict
    /\ socks = [s \in Socks |-> "new"]
    /\ peer = [s \in Socks |-> NewPeer]
    /\ resp = [s \in Socks |-> <<>>]
    /\ ev = NoEvent("init", "none")
    /\ res = NoCreds
    /\ raised = "none"

\* two client sockets, each peer sending one of a few requests
Init ==
    /\ Start
    /\ offered = [s \in Socks |-> "few"]

\* one client socket, its peers sending any of the requests
InitRoutes ==
    /\ Start
    /\ offered = [s \in Socks |-> IF s = "s1" THEN "all" ELSE "none"]

\* a mode change that drops the responses in flight
SetIp_invalidating(new_ip, new_ssid) ==
    /\ raised = "none"
    /\ local_ip' = new_ip
    /\ ssid' = new_ssid
    /\ is_connected' = TRUE
    /\ conns' = EmptyDict
    /\ ev' = NoEvent("set_ip", "none")
    /\ res' = NoCreds
    /\ UNCHANGED <<routes, request, poll, socks, peer, resp, offered, raised>>

\* set_ip(new_ip, new_ssid)
SetIp(new_ip, new_ssid) ==
    /\ raised = "none"
    /\ local_ip' = new_ip
    /\ ssid' = new_ssid
    /\ is_connected' = TRUE
    /\ ev' = NoEvent("set_ip", "none")
    /\ res' = NoCreds
    /\ UNCHANGED <<routes, request, conns, poll, socks, peer, resp, offered, raised>>

\* handle(self.sock, ...): accept() hands out a client socket with the
\* handle s, whose peer is going to send req
Accept(s, req) ==
    /\ raised = "none"
    /\ socks[s] # "open"
    /\ req \in Catalogue(offered[s])
    /\ socks' = [socks EXCEPT ![s] = "open"]
    /\ poll' = register(s, "POLLIN")
    /\ peer' = [peer EXCEPT ![s] = [NewPeer EXCEPT !.rem = req]]
    /\ ev' = NoEvent("accept", s)
    /\ res' = NoCreds
    /\ UNCHANGED <<local_ip, ssid, is_connected, routes, offered, request, conns, resp, raised>>

\* handle(self.sock, ...): accept() raises EAGAIN
AcceptAgain ==
    /\ raised = "none"
    /\ ev' = NoEvent("accept", "none")
    /\ res' = NoCreds
    /\ UNCHANGED <<local_ip, ssid, is_connected, routes, offered, request, conns,
                   poll, socks, peer, resp, raised>>

\* read(s) when s.read() returned nothing: the socket is closed; the event
\* records the bytes that were buffered for it
read_nothing(s) ==
    /\ close(s)
    /\ peer' = [peer EXCEPT ![s] = NewPeer]
    /\ resp' = [resp EXCEPT ![s] = <<>>]
    /\ ev' = Event("read", s, request_get(s), FALSE, 0, TRUE, peer[s], resp[s])
    /\ res' = NoCreds

\* read(s) when the chunk does not end the request: acc is buffered
read_pending(s, k, acc, p) ==
    /\ request' = dict_set(request, s, acc)
    /\ peer' = [peer EXCEPT ![s] = p]
    /\ ev' = Event("read", s, acc, FALSE, k, FALSE, p, resp[s])
    /\ res' = NoCreds
    /\ UNCHANGED <<conns, poll, socks, resp, raised>>

\* read(s) when check_route raised
read_raises(s, k, acc, p, exception) ==
    /\ request' = request_pop(s)
    /\ raised' = exception
    /\ peer' = [peer EXCEPT ![s] = p]
    /\ ev' = Event("read", s, acc, TRUE, k, FALSE, p, resp[s])
    /\ res' = NoCreds
    /\ UNCHANGED <<conns, poll, socks, resp>>

\* read(s) when check_route returned: the response is begun
read_responds(s, k, acc, p, sent, result) ==
    /\ request' = request_pop(s)
    /\ conns' = dict_set(conns, s,
                   prepare_write(sent[Len(sent)].body, sent[Len(sent)].headers))
    /\ poll' = modify(s, "POLLOUT")
    /\ resp' = [resp EXCEPT ![s] = @ \o sent]
    /\ peer' = [peer EXCEPT ![s] = p]
    /\ ev' = Event("read", s, acc, TRUE, k, FALSE, p, resp[s] \o sent)
    /\ res' = result
    /\ UNCHANGED <<socks, raised>>

\* read(s) with the completed request routed to r
read_routed(s, k, acc, p, r) ==
    IF r.raises # "none"
    THEN read_raises(s, k, acc, p, r.raises)
    ELSE read_responds(s, k, acc, p, read_writes(r),
                       IF r.headers = None THEN NoCreds ELSE r.creds)

\* read(s) with the chunk data appended to the inbound buffer as acc
read_data(s, k, data, acc, p) ==
    IF Last4(data) # CRLFCRLF
    THEN read_pending(s, k, acc, p)
    ELSE read_routed(s, k, acc, p, check_route(acc))

\* read(s) with data = s.read()
read(s, k, data) ==
    IF data = ""
    THEN read_nothing(s)
    ELSE read_data(s, k, data, request_get(s) \o data,
                   [peer[s] EXCEPT !.rem = Sub(@, k + 1, Len(@)), !.reads = @ + 1])

\* handle(s, POLLIN, ...): read(s), s.read() returning the next k bytes
Read(s, k) ==
    /\ raised = "none"
    /\ s \in DOMAIN poll /\ poll[s] = "POLLIN"
    /\ k \in read_sizes(s)
    /\ UNCHANGED <<local_ip, ssid, is_connected, routes, offered>>
    /\ read(s, k, Sub(peer[s].rem, 1, k))

\* write_to(sock) after bytes_written = sock.write(...), the transport
\* then being p
write_to(s, c, n, p) ==
    /\ ev' = Event("write", s, "", FALSE, n, write_done(c, n), p, resp[s])
    /\ IF write_done(c, n)
       THEN /\ close(s)
            /\ peer' = [peer EXCEPT ![s] = NewPeer]
            /\ resp' = [resp EXCEPT ![s] = <<>>]
       ELSE /\ conns' = dict_set(conns, s, buff_advance(c, n))
            /\ peer' = [peer EXCEPT ![s] = p]
            /\ UNCHANGED <<request, poll, socks, resp, raised>>

\* the transport of s after its socket accepted n bytes of the window w
wrote(s, w, n) ==
    [peer[s] EXCEPT
        !.wire = @ \o Sub(w, 1, n),
        !.shorts = @ + (IF 0 < n /\ n < Len(w) THEN 1 ELSE 0),
        !.zero = @ \/ (n = 0 /\ Len(w) > 0)]

\* handle(s, POLLOUT, ...): write_to(s), sock.write() accepting n bytes
Write(s, n) ==
    /\ raised = "none"
    /\ s \in DOMAIN poll /\ poll[s] = "POLLOUT"
    /\ n \in write_sizes(s)
    /\ res' = NoCreds
    /\ UNCHANGED <<local_ip, ssid, is_connected, routes, offered>>
    /\ IF s \notin DOMAIN conns
       THEN /\ raised' = "KeyError"
            /\ ev' = Event("write", s, "", FALSE, 0, FALSE, peer[s], resp[s])
            /\ UNCHANGED <<request, conns, poll, socks, peer, resp>>
       ELSE write_to(s, conns[s], n, wrote(s, window(conns[s]), n))

\* close(s) called on a socket the server has accepted
Close(s) ==
    /\ raised = "none"
    /\ socks[s] # "new"
    /\ close(s)
    /\ peer' = [peer EXCEPT ![s] = NewPeer]
    /\ resp' = [resp EXCEPT ![s] = <<>>]
    /\ ev' = Event("close", s, "", FALSE, 0, TRUE, peer[s], resp[s])
    /\ res' = NoCreds
    /\ UNCHANGED <<local_ip, ssid, is_connected, routes, offered>>

Next ==
    \/ SetIp(NewIp, NewSsid)
    \/ \E s \in Socks : \E req \in Catalogue(offered[s]) : Accept(s, req)
    \/ AcceptAgain
    \/ \E s \in Socks : \E k \in read_sizes(s) : Read(s, k)
    \/ \E s \in Socks : \E n \in write_sizes(s) : Write(s, n)
    \/ \E s \in Socks : Close(s)

Spec == Init /\ [][Next]_vars

SpecRoutes == InitRoutes /\ [][Next]_vars

\* the poller keeps delivering write-ready events for a socket registered
\* for writing
WriteReady == \A s \in Socks : WF_vars(\E n \in write_sizes(s) : Write(s, n))

SpecRoutesLive == InitRoutes /\ [][Next]_vars /\ WriteReady

-----------------------------------------------------------------------------
(* Properties *)

\* the last call was a read that found a request complete and parsed it
Completed == ev.kind = "read" /\ ev.completed /\ parse_request(ev.acc).raises = "none"

\* the request that read parsed
Parsed == parse_request(ev.acc)

\* the bytes a response is to put on the wire
Stream(r) == r.headers \o "\r\n" \o r.body.data

\* C1: when write_to closes a connection whose socket writes all accepted
\* at least one byte, the bytes the socket accepted are exactly the header
\* block, "\r\n" and all the bytes of the body source.
C1_WireIsHeaderAndBody ==
    (ev.kind = "write" /\ ev.closed /\ ~ev.zero /\ Len(ev.resp) = 1)
        => ev.wire = Stream(ev.resp[1])

\* C2: a read event that brings bytes reports the request complete exactly
\* when the accumulated inbound buffer ends with "\r\n\r\n".
C2_CompleteIffBufferEnds ==
    (ev.kind = "read" /\ ev.n > 0)
        => (ev.completed <=> Last4(ev.acc) = CRLFCRLF)

\* C3: close(s) on a socket that is already closed raises nothing and leaves
\* the inbound registry, the outbound registry, the poller and the socket as
\* they were.
C3_SecondCloseChangesNothing ==
    [][(ev'.kind = "close" /\ socks[ev'.sock] = "closed")
          => /\ raised' = "none"
             /\ request' = request /\ conns' = conns
             /\ poll' = poll /\ socks' = socks]_vars

C3_ClosedTwice == ev.kind = "close" /\ ev.was = "closed" /\ raised = "none"

\* C4: no connection has an inbound buffer and an outbound write state at
\* once, and a connection gets outbound state only in the read event that
\* found its request complete and removed its inbound buffer.
C4_NeverInboundAndOutbound ==
    /\ [](\A s \in Socks : ~(s \in DOMAIN request /\ s \in DOMAIN conns))
    /\ [][\A s \in Socks :
            (s \notin DOMAIN conns /\ s \in DOMAIN conns')
                => /\ ev'.kind = "read" /\ ev'.sock = s /\ ev'.completed
                   /\ s \notin DOMAIN request']_vars

C4_OutboundAfterBufferedRead ==
    /\ ev.kind = "read" /\ ev.completed /\ ev.n < Len(ev.acc)
    /\ ev.sock \in DOMAIN conns
    /\ \E t \in Socks : t \in DOMAIN request

\* C5: in connected mode a completed request for /generate_204 or /gen_204
\* begins one response, 204 No Content with an empty body, and returns no
\* credentials.
C5_ProbeAnswered204Empty ==
    (Completed /\ is_connected /\ Parsed.path \in {"/generate_204", "/gen_204"})
        => /\ Len(ev.resp) = 1
           /\ ev.resp[1].headers = "HTTP/1.1 204 No Content\r\n"
           /\ ev.resp[1].body.data = ""
           /\ conns[ev.sock].write_range = <<0, Len("HTTP/1.1 204 No Content\r\n\r\n")>>
           /\ res = NoCreds

\* a host of fewer than two dot-separated labels
NoDot(host) == ~ \E i \in 1..Len(host) : Sub(host, i, i) = "."

\* the request is a connectivity probe answered in connected mode
ProbeConnected == is_connected /\ Parsed.path \in {"/generate_204", "/gen_204"}

\* C6: a completed request whose Host has no dot, and that is not a probe in
\* connected mode, begins one response, 404 Not Found with an empty body, in
\* both modes, and returns no credentials; hosts with a dot pass the rule.
C6_NoDotHost404Empty ==
    /\ (Completed /\ ~ProbeConnected /\ NoDot(Parsed.host))
          => /\ Len(ev.resp) = 1
             /\ ev.resp[1].headers = "HTTP/1.1 404 Not Found\r\n"
             /\ ev.resp[1].body.data = ""
             /\ res = NoCreds
    /\ is_valid_host("192.168.4.1") /\ is_valid_host("android.com")
    /\ ~is_valid_host("localhost")

\* C7: a completed request whose Host has a dot and is not the server's own
\* address, and that is not a probe in connected mode, begins exactly one
\* response, the 307 redirect to http://<own address>/ with the body
\* "Redirecting", and returns no credentials.
C7_ForeignHostRedirected ==
    (Completed /\ ~ProbeConnected /\ ~NoDot(Parsed.host) /\ Parsed.host # local_ip)
        => /\ Len(ev.resp) = 1
           /\ ev.resp[1].headers =
                  "HTTP/1.1 307 Temporary Redirect\r\nLocation: http://"
                      \o local_ip \o "/\r\n"
           /\ ev.resp[1].body.data = "Redirecting"
           /\ window(conns[ev.sock]) =
                  "HTTP/1.1 307 Temporary Redirect\r\nLocation: http://"
                      \o local_ip \o "/\r\n\r\nRedirecting"
           /\ res = NoCreds

C7_LoginOnForeignHost ==
    /\ Completed /\ Parsed.host = "a.b" /\ Parsed.path = "/login"
    /\ params_get(Parsed.params, "ssid") = "H"
    /\ params_get(Parsed.params, "password") = "s"
    /\ Len(ev.resp) = 1

\* the request is a GET for /login on the server's own address
LoginOnOwnHost ==
    Completed /\ Parsed.type = "GET" /\ Parsed.path = "/login" /\ Parsed.host = local_ip

\* the value of a query parameter of the request, None when it has none
Param(key) == params_get(Parsed.params, key)

\* C8 as stated: a completed GET /login on the own address with ssid and
\* password both present returns the pair and begins the 302 response to
\* http://<own address>/authenticating.
C8_LoginPresentReturnsPair ==
    (LoginOnOwnHost /\ Param("ssid") # None /\ Param("password") # None)
        => /\ res = <<Param("ssid"), Param("password")>>
           /\ Len(ev.resp) = 1
           /\ ev.resp[1].headers =
                  "HTTP/1.1 302 OK\r\nLocation: http://" \o local_ip
                      \o "/authenticating\r\n"

\* C8 as amended: a completed GET /login on the own address with ssid and
\* password both present and not empty returns the pair and begins the 302
\* response to http://<own address>/authenticating.
C8_LoginNonEmptyReturnsPair ==
    (LoginOnOwnHost /\ Param("ssid") \notin {None, ""}
                    /\ Param("password") \notin {None, ""})
        => /\ res = <<Param("ssid"), Param("password")>>
           /\ Len(ev.resp) = 1
           /\ ev.resp[1].headers =
                  "HTTP/1.1 302 OK\r\nLocation: http://" \o local_ip
                      \o "/authenticating\r\n"
           /\ ev.sock \in DOMAIN conns

C8_LoginSubmitted ==
    /\ LoginOnOwnHost /\ Param("ssid") = "H" /\ Param("password") = "s"
    /\ res = <<"H", "s">>

\* C9: a completed GET /login on the own address that lacks ssid or password
\* begins exactly one response, the 307 redirect to http://<own address>/
\* with the body "Redirecting", and returns no credentials.
C9_LoginIncompleteRedirected ==
    (LoginOnOwnHost /\ (Param("ssid") = None \/ Param("password") = None))
        => /\ Len(ev.resp) = 1
           /\ ev.resp[1].headers =
                  "HTTP/1.1 307 Temporary Redirect\r\nLocation: http://"
                      \o local_ip \o "/\r\n"
           /\ ev.resp[1].body.data = "Redirecting"
           /\ res = NoCreds

C9_LoginWithoutPassword ==
    /\ LoginOnOwnHost /\ Param("ssid") = "H" /\ Param("password") = None
    /\ Len(ev.resp) = 1

\* C10: a call returns credentials only when it is a read that completes a
\* request for /login on the own address carrying ssid and password, and
\* then it returns exactly those two values.
C10_CredentialsOnlyFromLogin ==
    res # NoCreds
        => /\ Completed
           /\ Parsed.path = "/login" /\ Parsed.host = local_ip
           /\ Param("ssid") # None /\ Param("password") # None
           /\ res = <<Param("ssid"), Param("password")>>

C10_CredentialsReturned == res # NoCreds /\ is_connected

\* the request is a GET for / or /authenticating on the server's own address
PageOnOwnHost ==
    /\ Completed /\ Parsed.type = "GET" /\ Parsed.host = local_ip
    /\ Parsed.path \in {"/", "/authenticating"}

\* C11: a completed GET for / or /authenticating on the own address begins
\* one response, 200 OK, whose body is the file the route table binds to the
\* path in captive mode and the connection status page in connected mode.
C11_PageAnswered200 ==
    PageOnOwnHost
        => /\ Len(ev.resp) = 1
           /\ ev.resp[1].headers = "HTTP/1.1 200 OK\r\n"
           /\ ev.resp[1].body.data =
                  IF is_connected
                  THEN "<p>" \o ssid \o " at " \o local_ip \o "</p>"
                  ELSE FileData(routes[Parsed.path])
           /\ Sub(conns[ev.sock].buff, 1, 19) = "HTTP/1.1 200 OK\r\n\r\n"
           /\ res = NoCreds

C11_StatusPageServed ==
    /\ PageOnOwnHost /\ is_connected
    /\ ev.resp[1].body.data = "<p>W at 1.3</p>"

\* C12: a completed request on the own address whose method is not GET and
\* whose path is not in the route table (and that is not a probe in connected
\* mode) completes the read normally, begins a 404 response on the connection
\* and returns no credentials.
C12_OtherMethod404 ==
    (/\ Completed /\ ~ProbeConnected /\ Parsed.host = local_ip
     /\ Parsed.type # "GET" /\ Parsed.path \notin DOMAIN routes)
        => /\ raised = "none"
           /\ ev.sock \in DOMAIN conns
           /\ Len(ev.resp) = 1
           /\ Sub(ev.resp[1].headers, 1, 12) = "HTTP/1.1 404"
           /\ res = NoCreds

\* the last call was a read that found a request complete and could not
\* parse it
Malformed == ev.kind = "read" /\ ev.completed /\ Parsed.raises # "none"

\* C13: a completed request that is malformed does not abort the dispatch
\* call; its connection is failed with a 400 response or closed, and keeps no
\* inbound buffer.
C13_MalformedFailsSoft ==
    Malformed
        => /\ raised = "none"
           /\ ev.sock \notin DOMAIN request
           /\ \/ /\ ev.sock \in DOMAIN conns
                 /\ Len(ev.resp) = 1
                 /\ Sub(ev.resp[1].headers, 1, 12) = "HTTP/1.1 400"
              \/ /\ socks[ev.sock] = "closed"
                 /\ ev.sock \notin DOMAIN conns
                 /\ ev.sock \notin DOMAIN poll

\* the last call was a read whose s.read() returned no bytes
ZeroRead == ev.kind = "read" /\ ev.n = 0

\* C14: a read event that yields zero bytes, with or without a partial
\* request buffered, raises nothing and tears the connection down: no inbound
\* buffer, no outbound state, no poller registration, the handle closed, no
\* response begun and no credentials returned.
C14_ZeroReadTearsDown ==
    ZeroRead
        => /\ raised = "none"
           /\ ev.closed
           /\ socks[ev.sock] = "closed"
           /\ ev.sock \notin DOMAIN request
           /\ ev.sock \notin DOMAIN conns
           /\ ev.sock \notin DOMAIN poll
           /\ ev.resp = <<>>
           /\ res = NoCreds

C14_ZeroReadWithPartialRequest == ZeroRead /\ ev.was = "open" /\ Len(ev.acc) > 1

\* the step is a write-ready event on s whose socket accepted some, not all,
\* of the bytes of the send window
PartialWrite(s) ==
    /\ ev'.kind = "write" /\ ev'.sock = s /\ s \in DOMAIN conns
    /\ 0 < ev'.n
    /\ ev'.n < conns[s].write_range[2] - conns[s].write_range[1]

\* C15: a write-ready event whose socket accepts n bytes, 0 < n < end - start,
\* leaves the connection open and polled for writing, advances the window
\* start by n and leaves the window end, the buffer and the body source as
\* they were.
C15_PartialWriteAdvances ==
    [][\A s \in Socks :
          PartialWrite(s)
              => /\ raised' = "none"
                 /\ socks'[s] = "open"
                 /\ s \in DOMAIN poll' /\ poll'[s] = "POLLOUT"
                 /\ s \in DOMAIN conns'
                 /\ conns'[s].write_range =
                        <<conns[s].write_range[1] + ev'.n, conns[s].write_range[2]>>
                 /\ conns'[s].buff = conns[s].buff
                 /\ conns'[s].body = conns[s].body]_vars

\* C16: the send window of every outbound write state satisfies
\* 0 <= start <= end <= 536.
C16_WindowWithinBuffer ==
    \A s \in DOMAIN conns :
        /\ 0 <= conns[s].write_range[1]
        /\ conns[s].write_range[1] <= conns[s].write_range[2]
        /\ conns[s].write_range[2] <= 536
        /\ Len(conns[s].buff) = 536

\* a window refilled from the body after a partial advance
C16_RefilledAfterPartialAdvance ==
    /\ ev.kind = "write" /\ ~ev.closed /\ ev.shorts > 0
    /\ conns[ev.sock].write_range[1] = 0
    /\ conns[ev.sock].write_range[2] > 0
    /\ conns[ev.sock].body.pos = Len(conns[ev.sock].body.data)

\* the connection of s is closed: no outbound state, no poller registration,
\* the handle closed
Closed(s) == s \notin DOMAIN conns /\ s \notin DOMAIN poll /\ socks[s] = "closed"

\* C17: while write-ready events keep being delivered (and no call has let an
\* exception escape, which ends the delivery of events), a connection with
\* outbound state eventually is closed with that state released and its
\* poller registration removed; until then it has no inbound buffer, is
\* polled for writing only and has exactly the one response begun.
C17_ResponseTerminates ==
    /\ \A s \in Socks : (s \in DOMAIN conns) ~> (Closed(s) \/ raised # "none")
    /\ [][\A s \in Socks :
            s \in DOMAIN conns
                => /\ s \notin DOMAIN request'
                   /\ s \in DOMAIN poll' => poll'[s] = "POLLOUT"
                   /\ s \in DOMAIN conns' => resp'[s] = resp[s]
                   /\ s \notin DOMAIN conns' => Closed(s)'
                   /\ Len(resp[s]) = 1]_vars

\* a connection closed by the write of the last segment of a body longer
\* than the buffer, one of its writes having been short
C17_ClosedAfterLastSegment ==
    /\ ev.kind = "write" /\ ev.closed /\ ev.shorts > 0 /\ Len(ev.wire) > 536
    /\ Closed(ev.sock)

\* the connection status page of the current mode
StatusPage == "<p>" \o ssid \o " at " \o local_ip \o "</p>"

\* the status code of a response
Status(r) == Sub(r.headers, 10, 12)

\* a is the beginning of b
Prefix(a, b) == Len(a) <= Len(b) /\ Sub(b, 1, Len(a)) = a

\* a response begun by a completed request is that of one mode and of the
\* current address: 204 only when connected, redirects and the login answer
\* pointing at the current address, and the body the status page exactly when
\* connected, a routed file or nothing when captive
OneMode(r) ==
    /\ Status(r) = "204" => is_connected
    /\ Status(r) = "307"
          => /\ r.headers = "HTTP/1.1 307 Temporary Redirect\r\nLocation: http://"
                                \o local_ip \o "/\r\n"
             /\ r.body.data = "Redirecting"
    /\ Status(r) = "302"
          => r.headers = "HTTP/1.1 302 OK\r\nLocation: http://" \o local_ip
                             \o "/authenticating\r\n"
    /\ Status(r) # "307"
          => r.body.data = IF is_connected THEN StatusPage
                           ELSE IF Status(r) = "404" THEN ""
                           ELSE IF Status(r) = "302" THEN AuthenticatingHtml
                           ELSE FileData(routes[Parsed.path])

\* C18: set_ip leaves the inbound buffers, the outbound states and the poller
\* as they are; what a connection's socket accepts is always the beginning
\* of the header and body chosen when its response began, and all of it when
\* the connection closes without a zero or short write; and the response a
\* completed request begins is resolved under one mode, the current one.
C18_ModeChangeBetweenEvents ==
    /\ [][ev'.kind = "set_ip"
            => /\ request' = request /\ conns' = conns
               /\ poll' = poll /\ socks' = socks]_vars
    /\ []((ev.kind = "write" /\ Len(ev.resp) = 1)
            => /\ Prefix(ev.wire, Stream(ev.resp[1]))
               /\ (ev.closed /\ ev.shorts = 0 /\ ~ev.zero)
                     => ev.wire = Stream(ev.resp[1]))
    /\ []((Completed /\ raised = "none")
            => Len(ev.resp) = 1 /\ OneMode(ev.resp[1]))

\* a response begun in captive mode, streamed to its end after set_ip
C18_CaptivePageSentAfterChange ==
    /\ ev.kind = "write" /\ ev.closed /\ is_connected
    /\ Len(ev.resp) = 1
    /\ ev.resp[1].body.data = IndexHtml
    /\ ev.wire = Stream(ev.resp[1])

\* the inbound buffer, outbound state and poller registration of b
Owned(b) ==
    [inbound  |-> IF b \in DOMAIN request THEN <<request[b]>> ELSE <<>>,
     outbound |-> IF b \in DOMAIN conns THEN <<conns[b]>> ELSE <<>>,
     polled   |-> IF b \in DOMAIN poll THEN <<poll[b]>> ELSE <<>>,
     handle   |-> socks[b]]

\* C19: a call made for one connection (accept, read, write, close), however
\* it ends, leaves the inbound buffer, outbound state, poller registration
\* and handle of every other connection as they were, and the mode, the own
\* address, the network name and the route table too.
C19_OtherConnectionsUntouched ==
    [][ev'.kind \in {"accept", "read", "write", "close"}
          => /\ \A b \in Socks \ {ev'.sock} : Owned(b)' = Owned(b)
             /\ is_connected' = is_connected
             /\ local_ip' = local_ip
             /\ ssid' = ssid
             /\ routes' = routes]_vars

\* a read that failed to parse its request while the other connection has a
\* response in flight
C19_ParseFailureBesideResponse ==
    /\ Malformed /\ raised # "none"
    /\ \E b \in Socks \ {ev.sock} :
          b \in DOMAIN conns /\ b \in DOMAIN poll /\ poll[b] = "POLLOUT"

\* C20: every connection with an inbound buffer is open and polled for
\* reading, every connection with outbound state is open and polled for
\* writing, a closed connection has neither and is not polled, and no
\* write-ready event misses its outbound state (no KeyError).
C20_RegistriesMatchPoller ==
    /\ \A s \in DOMAIN request :
          socks[s] = "open" /\ s \in DOMAIN poll /\ poll[s] = "POLLIN"
    /\ \A s \in DOMAIN conns :
          socks[s] = "open" /\ s \in DOMAIN poll /\ poll[s] = "POLLOUT"
    /\ \A s \in Socks :
          socks[s] = "closed"
              => s \notin DOMAIN request /\ s \notin DOMAIN conns /\ s \notin DOMAIN poll
    /\ \A s \in Socks :
          (s \in DOMAIN poll /\ poll[s] = "POLLOUT") => s \in DOMAIN conns
    /\ raised # "KeyError"

\* a write-ready event that found its outbound state and kept it, beside a
\* connection that is still reading
C20_WriteBesideRead ==
    /\ ev.kind = "write" /\ ~ev.closed
    /\ ev.sock \in DOMAIN conns
    /\ \E t \in Socks : t \in DOMAIN request /\ poll[t] = "POLLIN"

====
